---- MODULE Spec2Model ----
(***************************************************************************)
(* Model of the delegation and resilience layer of the customer-support   *)
(* multi-agent system: the tenacity retry boundaries around the database  *)
(* connection, the query functions and the payment tools, the inference   *)
(* retry policy of config.retry_config, the payment upsert, and the auth  *)
(* middleware in front of every domain service.                           *)
(*                                                                         *)
(* Times are in milliseconds.  An exception is a sequence of class names, *)
(* outermost first: tenacity's RetryError wrapping a driver error is      *)
(* <<"RetryError", "psycopg2.Error">>.  The empty sequence is "no         *)
(* exception".  A returned string is a record [text, f]: the template and *)
(* the values substituted into it.                                        *)
(***************************************************************************)
EXTENDS Integers, Sequences, FiniteSets, TLC

\* ---------------------------------------------------------------- bounds

\* How many payment intents the gateway creates in one behaviour.
MaxIntents == 1

\* ------------------------------------------------- tenacity retry policy
\* @retry(stop=stop_after_attempt(3),
\*        wait=wait_exponential(multiplier=0.2, min=0.2, max=2))

StopAttempts == 3
WaitMultiplierMs == 200
WaitMinMs == 200
WaitMaxMs == 2000

RECURSIVE Pow(_, _)
Pow(b, n) == IF n = 0 THEN 1 ELSE b * Pow(b, n - 1)

Min2(a, b) == IF a < b THEN a ELSE b
Max2(a, b) == IF a > b THEN a ELSE b

\* stop_after_attempt(3): no further attempt once attempt number n is made.
StopAfterAttemptOff(n) == n >= StopAttempts + 1
StopAfterAttempt(n) == n >= StopAttempts

\* wait_exponential: the sleep after failed attempt number n.
WaitExponential(n) ==
    Max2(Max2(0, WaitMinMs), Min2(WaitMultiplierMs * Pow(2, n - 1), WaitMaxMs))

\* Without reraise=True tenacity raises RetryError from the last exception.
RetryError(e) == <<"RetryError">> \o e

NoExc == <<>>

\* isinstance(e, psycopg2.Error): decided by the class of e itself.
IsDriverError(e) ==
    /\ e # NoExc
    /\ Head(e) \in {"psycopg2.Error", "psycopg2.OperationalError"}

\* ----------------------------------------------------------- the records

ProductNames == {"iPhone 15 Pro", "iphone 15 pro", "Foo"}
TrackingNumbers == {"1Z999", "1z999", "UNKNOWN123"}
Destinations == {"San Francisco"}

\* SQL LOWER() on the names the model uses.
Lower(s) ==
    IF s = "iPhone 15 Pro" THEN "iphone 15 pro"
    ELSE IF s = "1Z999" THEN "1z999"
    ELSE s

\* What a caller asks to be charged: the amount (a float in major units,
\* written here in thousandths: 9990 is 9.99, 1115 is 1.115), the currency
\* code and the customer's e-mail address.
Charges ==
    {[amount |-> 9990, currency |-> "usd", email |-> "test@example.com"],
     [amount |-> 1115, currency |-> "eur", email |-> "other@example.com"]}

\* Where the double nearest to a literal that ends in 5 thousandths lies:
\* 1.115 is stored as 1.11499999999999999, 0.145 as 0.14499999999999999.
StoredDouble(m) == IF m \in {1115, 145} THEN "below" ELSE "exact"

\* Where the double product amount * 100 lies against the decimal product:
\* 1.115 * 100 is 111.5 exactly, 0.145 * 100 is 14.499999999999998.
ProductDouble(m) == IF m \in {145} THEN "below" ELSE "exact"

\* Rounding q + 1/2 to an integer given where the double lies: a true tie
\* goes to the even neighbour (round() and "{:.2f}" both round half to even).
RoundTie(q, lies) ==
    IF lies = "below" THEN q
    ELSE IF lies = "above" THEN q + 1
    ELSE IF q % 2 = 0 THEN q ELSE q + 1

\* Rounding m thousandths to hundredths.
RoundHundredths(m, lies) ==
    IF m % 10 < 5 THEN m \div 10
    ELSE IF m % 10 > 5 THEN m \div 10 + 1
    ELSE RoundTie(m \div 10, lies)

\* int(round(amount * 100))
AmountCents(a) == RoundHundredths(a, ProductDouble(a))

\* "{x:.2f}" of cents / 100: the digits before and after the point.
Fmt2(cents) == <<cents \div 100, cents % 100>>

\* "{amount:.2f}" of the amount the caller passed.
FmtAmount(a) == Fmt2(RoundHundredths(a, StoredDouble(a)))
Statuses == {"requires_payment_method", "succeeded"}
IntentIds == 1..MaxIntents

\* The intent ids direct callers of the payment queries use: one more than
\* the gateway has issued, so that two rows can coexist.
DbIntentIds == 1..(MaxIntents + 1)

\* str.upper() on the currency codes the model uses.
Upper(s) == IF s = "usd" THEN "USD" ELSE IF s = "eur" THEN "EUR" ELSE s

VARIABLES
    databaseUrl,    \* DATABASE_URL is set
    stripeKey,      \* STRIPE_SECRET_KEY is set
    tables,         \* products, inventory, shipping_estimates, tracking_info
    payments,       \* the payments table: a sequence of rows
    intents,        \* the gateway's payment intents, by id
    op,             \* the operation in progress ("idle" before the first)
    args,           \* its arguments
    pc,             \* where it stands
    toolAttempts,   \* attempts tenacity made of the payment tool
    toolDelays,     \* sleeps between them
    gwCalls,        \* gateway calls made by this tool invocation
    gwOutcomes,     \* their outcomes, in order
    intent,         \* the tool's local variable intent (<<>> before)
    writeBack,      \* advisory write-back: "none", "ok", "failed", "skipped"
    qFn,            \* the db function being called
    qArgs,          \* its arguments
    qAttempts,      \* attempts tenacity made of this db call
    qDelays,        \* sleeps between them
    cAttempts,      \* attempts tenacity made of this _connect call
    cDelays,        \* sleeps between them
    connects,       \* _connect attempts made since the operation began
    openConns,      \* connections opened since then and not closed
    exc,            \* exception in flight inside the db call
    attemptExc,     \* exception raised by the db call's last failed attempt
    qRows,          \* rows returned by the db call (fetchone: 0 or 1)
    qRaised,        \* exception raised by the db call to its caller
    result,         \* what the operation returned (<<>> before)
    raised,         \* the exception that left the operation
    infAttempts,    \* inference: attempts of one generate call
    infDelays,      \* sleeps between them
    infOutcomes,    \* HTTP status of each attempt
    a2aApiKey,      \* A2A_API_KEY of the service
    enforcing,      \* enforcing mode selected for the deployment
    request,        \* the HTTP request at the middleware (<<>> before)
    warned,         \* [AUTH WARNING] printed for it
    handlerRan,     \* call_next(request) ran
    httpStatus,     \* status the middleware answered with (0 before)
    headerRead,     \* the middleware read the x-internal-api-key header
    hist,           \* the earlier call this one follows, and what it returned
    clientPc,       \* where the client's run stands
    queryIdx,       \* the test query being processed (0 before the first)
    sessionId,      \* session_id of the conversation in progress
    services,       \* the InMemorySessionService objects made so far
    runs,           \* the runner.run_async calls made so far
    proxies,        \* agent_card of the RemoteA2aAgent made for each agent name
    calls           \* retry-wrapped db calls running concurrently

configVars == <<databaseUrl, stripeKey, a2aApiKey, enforcing>>
storeVars == <<tables, payments, intents>>
toolVars == <<toolAttempts, toolDelays, gwCalls, gwOutcomes, intent, writeBack>>
dbVars == <<qFn, qArgs, qAttempts, qDelays, cAttempts, cDelays, connects,
            openConns, exc, attemptExc, qRows, qRaised>>
infVars == <<infAttempts, infDelays, infOutcomes>>
authVars == <<request, warned, handlerRan, httpStatus, headerRead>>
clientVars == <<clientPc, queryIdx, sessionId, services, runs, proxies>>
concVars == <<calls>>
sideVars == <<clientVars, concVars>>
vars == <<configVars, storeVars, op, args, pc, toolVars, dbVars, result, raised,
          infVars, authVars, hist, sideVars>>

\* The seeded lookup tables (the schema's contents are the deployment's).
SeedTables ==
    [products |-> <<[id |-> 1, name |-> "iPhone 15 Pro", description |-> "Apple phone",
                     price_cents |-> 99900]>>,
     inventory |-> <<[product_name |-> "iPhone 15 Pro", quantity |-> 12,
                      status |-> "in stock"]>>,
     shipping_estimates |-> <<[product_name |-> "iPhone 15 Pro",
                               standard_days |-> "5-7 days", standard_cost |-> "$5.99",
                               express_days |-> "1-2 days", express_cost |-> "$19.99"]>>,
     tracking_info |-> <<[tracking_number |-> "1Z999", status |-> "in transit",
                          last_location |-> "Oakland", eta |-> "tomorrow"]>>]


\* --------------------------------------------------------- returned text

Str(text, f) == [text |-> text, f |-> f]
NoResult == Str("", <<>>)
NoIntent == [id |-> 0, amount |-> 0, hasAmount |-> FALSE, currency |-> "",
             receipt_email |-> "", status |-> "", client_secret |-> ""]
NoArgs == [none |-> TRUE]

DatabaseErrorText == Str("Database error occurred. Please try again later.", <<>>)
UnexpectedErrorText == Str("Unexpected error occurred.", <<>>)

LookupTools == {"get_product_info", "get_inventory_info",
                "get_shipping_estimate", "get_tracking_info"}
PaymentTools == {"create_payment_intent", "get_payment_status"}

\* The db function a lookup tool calls.
QueryOf(tool) ==
    CASE tool = "get_product_info" -> "query_product_by_name"
      [] tool = "get_inventory_info" -> "query_inventory"
      [] tool = "get_shipping_estimate" -> "query_shipping_estimate"
      [] tool = "get_tracking_info" -> "query_tracking"

\* ------------------------------------------------------------- the store

SetMin(S) == CHOOSE x \in S : \A y \in S : x <= y

\* LIMIT 1, then fetchone(): no row, or the first of the matching rows.
FetchOne(rows, hits) == IF hits = {} THEN <<>> ELSE <<rows[SetMin(hits)]>>

\* The WHERE clauses.
MatchProduct(key, row) == Lower(row.name) = Lower(key)
MatchProductNameExact(key, row) == row.product_name = key
MatchProductName(key, row) == Lower(row.product_name) = Lower(key)
MatchTracking(key, row) == row.tracking_number = key
MatchIntent(key, row) == row.stripe_payment_intent_id = key

\* The SELECT of each query function, with the columns it names.
RunSelect(fn, a, tbl, pay) ==
    CASE fn = "query_product_by_name" ->
            FetchOne(tbl.products,
                     {i \in DOMAIN tbl.products : MatchProduct(a.key, tbl.products[i])})
      [] fn = "query_inventory" ->
            LET hit == FetchOne(tbl.inventory,
                         {i \in DOMAIN tbl.inventory :
                            MatchProductName(a.key, tbl.inventory[i])})
            IN  [i \in DOMAIN hit |-> [quantity |-> hit[i].quantity,
                                        status |-> hit[i].status]]
      [] fn = "query_shipping_estimate" ->
            LET hit == FetchOne(tbl.shipping_estimates,
                         {i \in DOMAIN tbl.shipping_estimates :
                            MatchProductName(a.key, tbl.shipping_estimates[i])})
            IN  [i \in DOMAIN hit |-> [standard_days |-> hit[i].standard_days,
                                        standard_cost |-> hit[i].standard_cost,
                                        express_days |-> hit[i].express_days,
                                        express_cost |-> hit[i].express_cost]]
      [] fn = "query_tracking" ->
            LET hit == FetchOne(tbl.tracking_info,
                         {i \in DOMAIN tbl.tracking_info :
                            MatchTracking(a.key, tbl.tracking_info[i])})
            IN  [i \in DOMAIN hit |-> [status |-> hit[i].status,
                                        last_location |-> hit[i].last_location,
                                        eta |-> hit[i].eta]]
      [] fn = "get_payment_by_intent" ->
            FetchOne(pay, {i \in DOMAIN pay : MatchIntent(a.key, pay[i])})
      [] OTHER -> <<>>

HasPayment(rows, id) == \E i \in DOMAIN rows : rows[i].stripe_payment_intent_id = id

\* insert ... on conflict (stripe_payment_intent_id) do update
\* set status = excluded.status
UpsertOverwrite(rows, r) ==
    IF HasPayment(rows, r.stripe_payment_intent_id)
    THEN [i \in DOMAIN rows |->
            IF rows[i].stripe_payment_intent_id = r.stripe_payment_intent_id
            THEN r ELSE rows[i]]
    ELSE Append(rows, r)
UpsertAllRows(rows, r) ==
    IF HasPayment(rows, r.stripe_payment_intent_id)
    THEN [i \in DOMAIN rows |-> [rows[i] EXCEPT !.status = r.status]]
    ELSE Append([i \in DOMAIN rows |-> [rows[i] EXCEPT !.status = r.status]], r)
Upsert(rows, r) ==
    IF HasPayment(rows, r.stripe_payment_intent_id)
    THEN [i \in DOMAIN rows |->
            IF rows[i].stripe_payment_intent_id = r.stripe_payment_intent_id
            THEN [rows[i] EXCEPT !.status = r.status]
            ELSE rows[i]]
    ELSE Append(rows, r)

\* ----------------------------------------------- one retry-wrapped db call

\* The caller enters a db function: tenacity starts counting anew.
BeginDbCall(fn, a) ==
    /\ qFn' = fn
    /\ qArgs' = a
    /\ qAttempts' = 0
    /\ qDelays' = <<>>
    /\ cAttempts' = 0
    /\ cDelays' = <<>>
    /\ exc' = NoExc
    /\ attemptExc' = NoExc
    /\ qRows' = <<>>
    /\ qRaised' = NoExc

ResetDbCall ==
    /\ qFn' = ""
    /\ qArgs' = NoArgs
    /\ qAttempts' = 0
    /\ qDelays' = <<>>
    /\ cAttempts' = 0
    /\ cDelays' = <<>>
    /\ exc' = NoExc
    /\ attemptExc' = NoExc
    /\ qRows' = <<>>
    /\ qRaised' = NoExc

\* What one _connect attempt can do: raise RuntimeError when DATABASE_URL is
\* unset, else connect or fail with the driver's error.
ConnectOutcomes ==
    IF databaseUrl THEN {"ok", "psycopg2.OperationalError"} ELSE {"RuntimeError"}

\* tenacity runs one attempt of the db function; its first statement is get_db().
query_attempt ==
    /\ pc = "q_try"
    /\ qAttempts' = qAttempts + 1
    /\ cAttempts' = 0
    /\ cDelays' = <<>>
    /\ exc' = NoExc
    /\ pc' = "c_try"
    /\ UNCHANGED <<configVars, hist, sideVars, storeVars, op, args, toolVars, qFn, qArgs, qDelays,
                   connects, openConns, attemptExc, qRows, qRaised, result, raised,
                   infVars, authVars>>

\* One attempt of _connect inside get_db, and tenacity's decision after it.
connect_attempt ==
    /\ pc = "c_try"
    /\ cAttempts' = cAttempts + 1
    /\ connects' = connects + 1
    /\ \E outcome \in ConnectOutcomes :
         IF outcome = "ok"
         THEN /\ openConns' = openConns + 1
              /\ pc' = "execute"
              /\ UNCHANGED <<cDelays, exc>>
         ELSE /\ UNCHANGED openConns
              /\ IF StopAfterAttempt(cAttempts + 1)
                 THEN \* get_db logs and re-raises what _connect() raised
                      /\ exc' = RetryError(<<outcome>>)
                      /\ pc' = "q_failed"
                      /\ UNCHANGED cDelays
                 ELSE /\ cDelays' = Append(cDelays, WaitExponential(cAttempts + 1))
                      /\ pc' = "c_try"
                      /\ UNCHANGED exc
    /\ UNCHANGED <<configVars, hist, sideVars, storeVars, op, args, toolVars, qFn, qArgs, qAttempts,
                   qDelays, attemptExc, qRows, qRaised, result, raised, infVars,
                   authVars>>

\* cursor(), execute(), fetchone() or commit(), cur.close(), conn.close().
\* A driver error in between leaves the except clause without closing conn.
execute ==
    /\ pc = "execute"
    /\ \E outcome \in {"ok", "psycopg2.Error"} :
         IF outcome = "ok"
         THEN /\ payments' = IF qFn = "insert_payment"
                             THEN Upsert(payments, qArgs) ELSE payments
              /\ qRows' = RunSelect(qFn, qArgs, tables, payments)
              /\ openConns' = openConns - 1
              /\ pc' = "q_returned"
              /\ UNCHANGED exc
         ELSE /\ exc' = <<outcome>>
              /\ pc' = "q_failed"
              /\ UNCHANGED <<payments, qRows, openConns>>
    /\ UNCHANGED <<configVars, hist, sideVars, tables, intents, op, args, toolVars, qFn, qArgs,
                   qAttempts, qDelays, cAttempts, cDelays, connects, attemptExc,
                   qRaised, result, raised, infVars, authVars>>

\* The attempt raised: the except clause logs and re-raises, tenacity decides.
query_failed ==
    /\ pc = "q_failed"
    /\ attemptExc' = exc
    /\ IF StopAfterAttempt(qAttempts)
       THEN /\ qRaised' = RetryError(exc)
            /\ pc' = "q_raised"
            /\ UNCHANGED qDelays
       ELSE /\ qDelays' = Append(qDelays, WaitExponential(qAttempts))
            /\ pc' = "q_try"
            /\ UNCHANGED qRaised
    /\ UNCHANGED <<configVars, hist, sideVars, storeVars, op, args, toolVars, qFn, qArgs, qAttempts,
                   cAttempts, cDelays, connects, openConns, exc, qRows, result,
                   raised, infVars, authVars>>


\* ------------------------------------------------------- an operation begins

Idle == pc \in {"idle", "done"}

BeginCall(o, a) ==
    /\ Idle
    /\ op' = o
    /\ args' = a
    /\ toolAttempts' = 0
    /\ toolDelays' = <<>>
    /\ gwCalls' = 0
    /\ gwOutcomes' = <<>>
    /\ intent' = NoIntent
    /\ writeBack' = "none"
    /\ connects' = 0
    /\ openConns' = 0
    /\ result' = NoResult
    /\ raised' = NoExc
    /\ infAttempts' = 0
    /\ infDelays' = <<>>
    /\ infOutcomes' = <<>>

\* The call follows no earlier one.
NoHist == [op |-> "", args |-> NoArgs, result |-> NoResult, raised |-> NoExc,
           intent |-> NoIntent]

\* A call that repeats no earlier one.
BeginOp(o, a) ==
    /\ BeginCall(o, a)
    /\ hist' = NoHist

\* ------------------------------------------------------ the lookup tools

LookupKeys(tool) == IF tool = "get_tracking_info" THEN TrackingNumbers ELSE ProductNames

NotFoundText(tool, key) ==
    CASE tool = "get_product_info" -> Str("No product found for '{product_name}'.", <<key>>)
      [] tool = "get_inventory_info" ->
            Str("No inventory information found for '{product_name}'.", <<key>>)
      [] tool = "get_shipping_estimate" ->
            Str("No shipping estimate found for '{product_name}'.", <<key>>)
      [] tool = "get_tracking_info" ->
            Str("No tracking data found for tracking number '{tracking_number}'.", <<key>>)

FoundText(tool, a, row) ==
    CASE tool = "get_product_info" ->
            Str("Product: {name}\nDescription: {description}\nPrice: ${dollars:.2f}",
                <<row.name, row.description, Fmt2(row.price_cents)>>)
      [] tool = "get_inventory_info" ->
            Str("{product_name} is {status} with {quantity} units available.",
                <<a.key, row.status, row.quantity>>)
      [] tool = "get_shipping_estimate" ->
            Str("Standard: {standard_days} ({standard_cost}), Express: {express_days} ({express_cost}). Destination: {destination}.",
                <<row.standard_days, row.standard_cost, row.express_days,
                  row.express_cost, a.destination>>)
      [] tool = "get_tracking_info" ->
            Str("Status: {status}. Last seen in {last_location}. Estimated delivery: {eta}.",
                <<row.status, row.last_location, row.eta>>)

\* except psycopg2.Error / except Exception at the tool boundary.
LookupErrorText(e) == IF IsDriverError(e) THEN DatabaseErrorText ELSE UnexpectedErrorText

\* get_product_info, get_inventory_info, get_shipping_estimate, get_tracking_info
\* are called: each calls its query function first.
start_lookup ==
    \E tool \in LookupTools :
      \E key \in LookupKeys(tool) :
        \E dest \in Destinations :
          /\ BeginOp(tool, [key |-> key,
                            destination |-> IF tool = "get_shipping_estimate"
                                            THEN dest ELSE ""])
          /\ BeginDbCall(QueryOf(tool), [key |-> key])
          /\ pc' = "q_try"
          /\ UNCHANGED <<configVars, storeVars, authVars, sideVars>>

\* The query function returned a row, returned None, or raised.
lookup_return ==
    /\ op \in LookupTools
    /\ pc \in {"q_returned", "q_raised"}
    /\ result' = IF pc = "q_raised" THEN LookupErrorText(qRaised)
                 ELSE IF qRows = <<>> THEN NotFoundText(op, args.key)
                 ELSE FoundText(op, args, qRows[1])
    /\ pc' = "done"
    /\ UNCHANGED <<configVars, hist, sideVars, storeVars, op, args, toolVars, dbVars, raised,
                   infVars, authVars>>

\* ----------------------------------------------- db functions called directly

PaymentRows ==
    {[stripe_payment_intent_id |-> i, amount_cents |-> AmountCents(c.amount),
      currency |-> c.currency, customer_email |-> c.email, status |-> st] :
        i \in DbIntentIds, c \in Charges, st \in Statuses}

\* The payment queries, called by a caller other than the payment tools.
PaymentQueries == {"insert_payment", "get_payment_by_intent"}

DbCallArgs(fn) ==
    CASE fn = "get_payment_by_intent" -> {[key |-> i] : i \in DbIntentIds}
      [] fn = "insert_payment" -> PaymentRows

start_db_call ==
    \E fn \in PaymentQueries :
      \E a \in DbCallArgs(fn) :
        /\ BeginOp(fn, a)
        /\ BeginDbCall(fn, a)
        /\ pc' = "q_try"
        /\ UNCHANGED <<configVars, storeVars, authVars, sideVars>>

\* The db function hands its row, or its exception, to the caller.
db_return ==
    /\ op \in PaymentQueries
    /\ pc \in {"q_returned", "q_raised"}
    /\ result' = Str("row", qRows)
    /\ raised' = qRaised
    /\ pc' = "done"
    /\ UNCHANGED <<configVars, hist, sideVars, storeVars, op, args, toolVars, dbVars, infVars,
                   authVars>>


\* ------------------------------------------------------ the payment tools

ConfigErrorText == Str("ERROR: Stripe secret key is not configured.", <<>>)
UnavailableText == Str("Payment service is temporarily unavailable.", <<>>)
PaymentErrorText == Str("Payment service error occurred. Please try again later.", <<>>)
SorryText(tool) ==
    IF tool = "create_payment_intent"
    THEN Str("Sorry, I couldn't process your payment request right now. The payment system is temporarily unavailable. Please try again later.", <<>>)
    ELSE Str("Sorry, I couldn't retrieve the payment status right now. The payment system is temporarily unavailable. Please try again later.", <<>>)

CreatedText(a, it) ==
    Str("Created payment intent.\nID: {id}\nStatus: {status}\nAmount: {amount:.2f} {CURRENCY}\nClient secret (for frontend): {client_secret}",
        <<it.id, it.status, FmtAmount(a.amount), Upper(a.currency), it.client_secret>>)

StatusTextStored(it) ==
    Str("Payment intent {id} has status '{status}'. Amount: {amount:.2f} {CURRENCY}.",
        <<it.id,
          IF HasPayment(payments, it.id)
          THEN payments[CHOOSE i \in DOMAIN payments :
                          payments[i].stripe_payment_intent_id = it.id].status
          ELSE it.status,
          Fmt2(it.amount), Upper(it.currency)>>)
StatusText(it) ==
    Str("Payment intent {id} has status '{status}'. Amount: {amount:.2f} {CURRENCY}.",
        <<it.id, it.status, Fmt2(it.amount), Upper(it.currency)>>)

\* What one call of the gateway can do: answer, fail to connect
\* (APIConnectionError), fail transiently with HTTP 503 (APIError), decline
\* (CardError), reject the request (InvalidRequestError), or raise something
\* that is no StripeError.
GatewayErrors == {"APIConnectionError", "APIError", "CardError",
                  "InvalidRequestError", "Exception"}
StripeErrors == {"APIError", "CardError", "InvalidRequestError"}

\* The except clauses around the gateway call: each returns its fixed text.
GatewayErrorText(tool, e) ==
    IF e = "APIConnectionError" THEN UnavailableText
    ELSE IF e \in StripeErrors THEN PaymentErrorText
    ELSE SorryText(tool)

\* Whether an exception of the gateway call is caught inside the tool: the
\* clauses end with except Exception, so every one is.
CaughtStripeOnly(tool, e) == e \in StripeErrors \cup {"APIConnectionError"}
Caught(tool, e) == e \in GatewayErrors

start_create_payment_intent ==
    \E c \in Charges :
      /\ BeginOp("create_payment_intent",
                 [amount |-> c.amount, currency |-> c.currency,
                  customer_email |-> c.email])
      /\ ResetDbCall
      /\ pc' = "t_try"
      /\ UNCHANGED <<configVars, storeVars, authVars, sideVars>>

start_get_payment_status ==
    \E id \in IntentIds :
      /\ BeginOp("get_payment_status", [payment_intent_id |-> id])
      /\ ResetDbCall
      /\ pc' = "t_try"
      /\ UNCHANGED <<configVars, storeVars, authVars, sideVars>>

\* tenacity runs one attempt of the tool; its first statement checks the key.
tool_attempt ==
    /\ pc = "t_try"
    /\ op \in PaymentTools
    /\ toolAttempts' = toolAttempts + 1
    /\ IF ~stripeKey
       THEN /\ result' = ConfigErrorText
            /\ pc' = "done"
       ELSE /\ pc' = "gateway"
            /\ UNCHANGED result
    /\ UNCHANGED <<configVars, hist, sideVars, storeVars, op, args, toolDelays, gwCalls, gwOutcomes,
                   intent, writeBack, dbVars, raised, infVars, authVars>>

\* stripe.PaymentIntent.create(...), then insert_payment(...) is entered.
gateway_create ==
    /\ pc = "gateway"
    /\ op = "create_payment_intent"
    /\ gwCalls' = gwCalls + 1
    /\ \E outcome \in GatewayErrors \cup {"ok"} :
         /\ outcome = "ok" => Len(intents) < MaxIntents
         /\ gwOutcomes' = Append(gwOutcomes, outcome)
         /\ IF outcome = "ok"
            THEN LET it == [id |-> Len(intents) + 1,
                            amount |-> AmountCents(args.amount),
                            hasAmount |-> TRUE,
                            currency |-> args.currency,
                            receipt_email |-> args.customer_email,
                            status |-> "requires_payment_method",
                            client_secret |-> "client_secret"]
                 IN  /\ intents' = Append(intents, it)
                     /\ intent' = it
                     /\ BeginDbCall("insert_payment",
                                    [stripe_payment_intent_id |-> it.id,
                                     amount_cents |-> AmountCents(args.amount),
                                     currency |-> args.currency,
                                     customer_email |-> args.customer_email,
                                     status |-> it.status])
                     /\ pc' = "q_try"
                     /\ UNCHANGED result
            ELSE /\ IF Caught(op, outcome)
                    THEN /\ result' = GatewayErrorText(op, outcome)
                         /\ pc' = "done"
                         /\ UNCHANGED exc
                    ELSE /\ exc' = <<outcome>>
                         /\ pc' = "t_failed"
                         /\ UNCHANGED result
                 /\ UNCHANGED <<intents, intent, qFn, qArgs, qAttempts, qDelays,
                                cAttempts, cDelays, attemptExc, qRows, qRaised>>
    /\ UNCHANGED <<configVars, hist, sideVars, tables, payments, op, args, toolAttempts, toolDelays,
                   writeBack, connects, openConns, raised, infVars, authVars>>

\* stripe.PaymentIntent.retrieve(id).  The gateway answers with the intent
\* it holds, with or without an amount.  With an amount insert_payment(...)
\* is entered; without one int(intent.amount) raises inside the try, which is
\* swallowed, and the f-string's {amount:.2f} raises TypeError outside it.
gateway_retrieve ==
    /\ pc = "gateway"
    /\ op = "get_payment_status"
    /\ gwCalls' = gwCalls + 1
    /\ \E outcome \in GatewayErrors \cup {"ok"} :
         /\ outcome = "ok" => args.payment_intent_id \in DOMAIN intents
         /\ gwOutcomes' = Append(gwOutcomes, outcome)
         /\ IF outcome = "ok"
            THEN \E hasAmount \in BOOLEAN :
                   LET it == [intents[args.payment_intent_id]
                                EXCEPT !.hasAmount = hasAmount]
                   IN  /\ intent' = it
                       /\ UNCHANGED result
                       /\ IF hasAmount
                          THEN /\ BeginDbCall("insert_payment",
                                      [stripe_payment_intent_id |-> it.id,
                                       amount_cents |-> it.amount,
                                       currency |-> it.currency,
                                       customer_email |-> it.receipt_email,
                                       status |-> it.status])
                               /\ pc' = "q_try"
                               /\ UNCHANGED writeBack
                          ELSE /\ writeBack' = "skipped"
                               /\ exc' = <<"TypeError">>
                               /\ pc' = "t_failed"
                               /\ UNCHANGED <<qFn, qArgs, qAttempts, qDelays, cAttempts,
                                              cDelays, attemptExc, qRows, qRaised>>
            ELSE /\ IF Caught(op, outcome)
                    THEN /\ result' = GatewayErrorText(op, outcome)
                         /\ pc' = "done"
                         /\ UNCHANGED exc
                    ELSE /\ exc' = <<outcome>>
                         /\ pc' = "t_failed"
                         /\ UNCHANGED result
                 /\ UNCHANGED <<intent, writeBack, qFn, qArgs, qAttempts, qDelays,
                                cAttempts, cDelays, attemptExc, qRows, qRaised>>
    /\ UNCHANGED <<configVars, hist, sideVars, storeVars, op, args, toolAttempts, toolDelays,
                   connects, openConns, raised, infVars, authVars>>

\* What the tool returns once insert_payment has returned (e = NoExc) or
\* raised e: both except clauses log and fall through to the return.
AfterWriteBackFails(tool, a, it, e) ==
    IF e # NoExc THEN (IF IsDriverError(e) THEN DatabaseErrorText ELSE SorryText(tool))
    ELSE IF tool = "create_payment_intent" THEN CreatedText(a, it) ELSE StatusText(it)
AfterWriteBack(tool, a, it, e) ==
    IF tool = "create_payment_intent" THEN CreatedText(a, it) ELSE StatusText(it)

write_back_return ==
    /\ op \in PaymentTools
    /\ pc \in {"q_returned", "q_raised"}
    /\ writeBack' = IF pc = "q_raised" THEN "failed" ELSE "ok"
    /\ result' = AfterWriteBack(op, args, intent, qRaised)
    /\ pc' = "done"
    /\ UNCHANGED <<configVars, hist, sideVars, storeVars, op, args, toolAttempts, toolDelays,
                   gwCalls, gwOutcomes, intent, dbVars, raised, infVars, authVars>>

\* An exception left the tool's body: tenacity retries the whole tool or,
\* after the last attempt, raises RetryError to the tool's caller.
tool_failed ==
    /\ pc = "t_failed"
    /\ IF StopAfterAttempt(toolAttempts)
       THEN /\ raised' = RetryError(exc)
            /\ pc' = "done"
            /\ UNCHANGED toolDelays
       ELSE /\ toolDelays' = Append(toolDelays, WaitExponential(toolAttempts))
            /\ pc' = "t_try"
            /\ UNCHANGED raised
    /\ UNCHANGED <<configVars, hist, sideVars, storeVars, op, args, toolAttempts, gwCalls,
                   gwOutcomes, intent, writeBack, dbVars, result, infVars, authVars>>

\* The gateway's own state moves on: the customer completes the payment.
gateway_advance ==
    /\ Idle
    /\ \E id \in DOMAIN intents :
         /\ intents[id].status = "requires_payment_method"
         /\ intents' = [intents EXCEPT ![id].status = "succeeded"]
    /\ UNCHANGED <<configVars, hist, sideVars, tables, payments, op, args, pc, toolVars, dbVars,
                   result, raised, infVars, authVars>>


\* --------------------------------------- the inference boundary's retries
\* config.retry_config = HttpRetryOptions(attempts=5, exp_base=7,
\* initial_delay=1, http_status_codes=[429, 500, 503, 504]), handed to every
\* Gemini model.  max_delay and jitter are not set: the client then waits
\* min(initial * exp_base^(n-1) + uniform(0, 1 s), 60 s) and re-raises the
\* last error itself.

InferenceAttempts == 5
ExpBase == 7
InitialDelayMs == 1000
MaxDelayMs == 60000
RetryStatusCodes == {429, 500, 503, 504}

\* The jitter drawn for one wait, and the statuses the provider answers with.
Jitters == {0, 1000}
HttpStatuses == {200, 400, 429, 503}

InferenceStop(n) == n >= InferenceAttempts

InferenceWait(n, jitter) ==
    Max2(0, Min2(InitialDelayMs * Pow(ExpBase, n - 1) + jitter, MaxDelayMs))

InferenceRetryable(status) == status \in RetryStatusCodes

start_inference ==
    /\ BeginOp("inference", NoArgs)
    /\ ResetDbCall
    /\ pc' = "inf_try"
    /\ UNCHANGED <<configVars, storeVars, authVars, sideVars>>

\* One HTTP attempt of a generate call, and the retry decision after it.
inference_attempt ==
    /\ pc = "inf_try"
    /\ infAttempts' = infAttempts + 1
    /\ \E status \in HttpStatuses :
         /\ infOutcomes' = Append(infOutcomes, status)
         /\ IF status = 200
            THEN /\ result' = Str("{model response}", <<>>)
                 /\ pc' = "done"
                 /\ UNCHANGED <<raised, infDelays>>
            ELSE IF InferenceRetryable(status) /\ ~InferenceStop(infAttempts + 1)
            THEN \E jitter \in Jitters :
                   /\ infDelays' = Append(infDelays, InferenceWait(infAttempts + 1, jitter))
                   /\ pc' = "inf_try"
                   /\ UNCHANGED <<raised, result>>
            ELSE /\ raised' = <<"APIError">>
                 /\ pc' = "done"
                 /\ UNCHANGED <<result, infDelays>>
    /\ UNCHANGED <<configVars, hist, sideVars, storeVars, op, args, toolVars, dbVars, authVars>>

\* ------------------------------------------------------ the auth middleware

Absent == "<absent>"
SharedSecret == "test-secret-key-123"

\* os.environ.get("A2A_API_KEY"): unset, set to the empty string, or set.
ApiKeySettings == {Absent, "", SharedSecret}

\* request.headers.get("x-internal-api-key")
HeaderValues == {Absent, "wrong-key-123", SharedSecret}

Services == {"inventory_service", "shipping_service", "payment_service"}

AgentCardPath == "/.well-known/agent-card.json"
Paths == {AgentCardPath, "/.well-known/agent.json", "/.well-knownx", "/tasks", "/"}

\* request.url.path.startswith("/.well-known"), on the paths of the model.
StartsWithWellKnown(path) ==
    path \in {AgentCardPath, "/.well-known/agent.json", "/.well-knownx"}

\* if A2A_API_KEY:
TruthyAlways(key) == TRUE
Truthy(key) == key \notin {Absent, ""}

NoRequest == [service |-> "", path |-> "", key |-> Absent]

\* What the middleware does with a request: whether it reads the header,
\* whether it prints the warning and whether it goes on to call_next (the
\* raise is commented out).
GateDecisionReject(secret, path, key) ==
    IF StartsWithWellKnown(path) THEN [read |-> FALSE, warn |-> FALSE, proceed |-> TRUE]
    ELSE IF Truthy(secret)
    THEN [read |-> TRUE, warn |-> key # secret, proceed |-> key = secret]
    ELSE [read |-> FALSE, warn |-> FALSE, proceed |-> TRUE]
GateDecisionNoExemption(secret, path, key) ==
    IF Truthy(secret)
    THEN [read |-> TRUE, warn |-> key # secret, proceed |-> TRUE]
    ELSE [read |-> FALSE, warn |-> FALSE, proceed |-> TRUE]
GateDecision(secret, path, key) ==
    IF StartsWithWellKnown(path) THEN [read |-> FALSE, warn |-> FALSE, proceed |-> TRUE]
    ELSE IF Truthy(secret)
    THEN [read |-> TRUE, warn |-> key # secret, proceed |-> TRUE]
    ELSE [read |-> FALSE, warn |-> FALSE, proceed |-> TRUE]

\* A request arrives at one of the services.
receive_request ==
    /\ pc \in {"idle", "done"}
    /\ \E svc \in Services, path \in Paths, key \in HeaderValues :
         request' = [service |-> svc, path |-> path, key |-> key]
    /\ op' = "http_request"
    /\ pc' = "middleware"
    /\ warned' = FALSE
    /\ handlerRan' = FALSE
    /\ httpStatus' = 0
    /\ headerRead' = FALSE
    /\ UNCHANGED <<configVars, hist, sideVars, storeVars, args, toolVars, dbVars, result, raised,
                   infVars>>

\* The middleware runs from its first line to its return.
require_internal_api_key ==
    /\ pc = "middleware"
    /\ LET d == GateDecision(a2aApiKey, request.path, request.key)
       IN  /\ headerRead' = d.read
           /\ warned' = d.warn
           /\ handlerRan' = d.proceed
           /\ IF d.proceed
              THEN \E st \in {200, 404} : httpStatus' = st
              ELSE httpStatus' = 401
    /\ pc' = "done"
    /\ UNCHANGED <<configVars, hist, sideVars, storeVars, op, args, toolVars, dbVars, result,
                   raised, infVars, request>>

\* ------------------------------------------------- a lookup is repeated

\* The tools whose result reports stored records.
Lookups == LookupTools \cup {"get_payment_status"}

\* The tool returned a string, and the agent calls it again with the same
\* arguments.
repeat_lookup ==
    /\ pc = "done"
    /\ op \in Lookups
    /\ raised = NoExc
    /\ result # NoResult
    /\ hist' = [op |-> op, args |-> args, result |-> result, raised |-> raised,
                intent |-> intent]
    /\ BeginCall(op, args)
    /\ IF op \in LookupTools
       THEN /\ BeginDbCall(QueryOf(op), [key |-> args.key])
            /\ pc' = "q_try"
       ELSE /\ ResetDbCall
            /\ pc' = "t_try"
    /\ UNCHANGED <<configVars, storeVars, authVars, sideVars>>

\* The caller takes the intent id out of the string create_payment_intent
\* returned (re.search(r'ID: (pi_[a-zA-Z0-9]+)', result)) and asks for that
\* payment's status.
follow_up_status ==
    /\ pc = "done"
    /\ op = "create_payment_intent"
    /\ raised = NoExc
    /\ Len(result.f) = 5
    /\ hist' = [op |-> op, args |-> args, result |-> result, raised |-> raised,
                intent |-> intent]
    /\ BeginCall("get_payment_status", [payment_intent_id |-> result.f[1]])
    /\ ResetDbCall
    /\ pc' = "t_try"
    /\ UNCHANGED <<configVars, storeVars, authVars, sideVars>>

\* ------------------------------------------------------ the client's run
\* main() runs test_a2a_communication once per test query, one after another.

NumTestQueries == 5

\* f"demo_session_{uuid.uuid4().hex[:8]}": 32 random bits, so two
\* conversations can draw the same id.
SessionIds == {"demo_session_0a1b2c3d", "demo_session_4e5f6a7b"}

\* InMemorySessionService(): no session yet.
EmptyService == [id \in SessionIds |-> [exists |-> FALSE, history |-> <<>>]]

\* session_service = InMemorySessionService() inside test_a2a_communication:
\* every conversation makes its own service object.
SharedSessionService(svcs) == IF svcs = <<>> THEN <<EmptyService>> ELSE svcs
NewSessionService(svcs) == Append(svcs, EmptyService)

\* session_service.create_session(app_name, user_id, session_id)
CreateSession(svc, id) == [svc EXCEPT ![id] = [exists |-> TRUE, history |-> <<>>]]

\* The runner appends the user's message to the session's history.
AppendMessage(svc, id, msg) == [svc EXCEPT ![id].history = Append(@, msg)]

\* name= of the four RemoteA2aAgent proxies.
AgentNames == {"product_catalog_agent", "inventory_agent", "shipping_agent",
               "payment_agent"}

\* The host each proxy's agent_card f-string starts with.
AgentHost(name) ==
    CASE name = "product_catalog_agent" -> "https://web-production-b8d5.up.railway.app"
      [] name = "inventory_agent" -> "https://web-production-b8d5.up.railway.app"
      [] name = "shipping_agent" -> "https://web-production-b8d5.up.railway.app"
      [] name = "payment_agent" -> "https://web-production-b8d5.up.railway.app"

\* f"{host}{AGENT_CARD_WELL_KNOWN_PATH}"
AgentCardUrl(name) == <<AgentHost(name), AgentCardPath>>

NoCard == <<"", "">>

InitClient ==
    /\ clientPc = "start"
    /\ queryIdx = 0
    /\ sessionId = ""
    /\ services = <<>>
    /\ runs = <<>>
    /\ proxies = [a \in AgentNames |-> NoCard]

clientIdle == <<configVars, storeVars, op, args, pc, toolVars, dbVars, result,
                raised, infVars, authVars, hist, concVars>>

\* main() calls create_remote_agents() and hands the four proxies to the
\* coordinator as its sub-agents.
create_remote_agents ==
    /\ clientPc = "start"
    /\ proxies' = [a \in AgentNames |-> AgentCardUrl(a)]
    /\ clientPc' = "main"
    /\ UNCHANGED <<queryIdx, sessionId, services, runs, clientIdle>>

\* for query in test_queries: test_a2a_communication is entered; it makes its
\* session service and draws its session id.
begin_conversation ==
    /\ clientPc = "main"
    /\ queryIdx < NumTestQueries
    /\ queryIdx' = queryIdx + 1
    /\ services' = NewSessionService(services)
    /\ \E id \in SessionIds : sessionId' = id
    /\ clientPc' = "create_session"
    /\ UNCHANGED <<runs, proxies, clientIdle>>

\* session = await session_service.create_session(...)
create_session ==
    /\ clientPc = "create_session"
    /\ services' = [services EXCEPT ![Len(services)] = CreateSession(@, sessionId)]
    /\ clientPc' = "run"
    /\ UNCHANGED <<queryIdx, sessionId, runs, proxies, clientIdle>>

\* async for event in runner.run_async(user_id, session_id, new_message): the
\* runner looks the session up in the conversation's service (raising when it
\* is missing), records the message in it, and runs the coordinator, which
\* ends with its final response or with an exception that main() does not
\* catch.
run_async ==
    /\ clientPc = "run"
    /\ LET svc == services[Len(services)]
           found == svc[sessionId].exists
       IN  /\ runs' = Append(runs, [conversation |-> queryIdx,
                                    service |-> Len(services),
                                    session |-> sessionId,
                                    found |-> found,
                                    history |-> svc[sessionId].history])
           /\ IF found
              THEN /\ services' = [services EXCEPT ![Len(services)] =
                                     AppendMessage(@, sessionId, queryIdx)]
                   /\ \E outcome \in {"final response", "exception"} :
                        clientPc' = IF outcome = "exception" THEN "crashed" ELSE "main"
              ELSE /\ clientPc' = "crashed"
                   /\ UNCHANGED services
    /\ UNCHANGED <<queryIdx, sessionId, proxies, clientIdle>>

\* The loop over test_queries is exhausted: main() returns.
client_exit ==
    /\ clientPc = "main"
    /\ queryIdx = NumTestQueries
    /\ clientPc' = "exit"
    /\ UNCHANGED <<queryIdx, sessionId, services, runs, proxies, clientIdle>>

\* ------------------------------------- retry-wrapped calls run concurrently
\* Several requests are served at once, each inside its own call of a
\* retry-wrapped query function.  tenacity keeps the attempt number and the
\* sleeps of a call in that call's RetryCallState.

\* How many calls run at once.
MaxCalls == 2

CallIds == 1..MaxCalls
ConcFns == {"query_inventory", "query_product_by_name"}

NoCall == [fn |-> "", pc |-> "idle", attempts |-> 0, delays |-> <<>>,
           cAttempts |-> 0, cDelays |-> <<>>, raised |-> NoExc]

InitCalls == calls = [c \in CallIds |-> NoCall]

InProgress(call) == call.pc \in {"q_try", "c_try", "execute", "q_failed"}

\* tenacity starts the next attempt of call c: its attempt number goes up by
\* one and get_db() starts a _connect call of its own.
NextAttemptShared(cs, c) ==
    [d \in DOMAIN cs |->
       IF d = c
       THEN [cs[d] EXCEPT !.attempts = @ + 1, !.cAttempts = 0, !.cDelays = <<>>,
                          !.pc = "c_try"]
       ELSE IF cs[d].fn = cs[c].fn /\ InProgress(cs[d])
       THEN [cs[d] EXCEPT !.attempts = @ + 1]
       ELSE cs[d]]
NextAttempt(cs, c) ==
    [cs EXCEPT ![c].attempts = @ + 1, ![c].cAttempts = 0, ![c].cDelays = <<>>,
               ![c].pc = "c_try"]

concIdle == <<configVars, storeVars, op, args, pc, toolVars, dbVars, result,
              raised, infVars, authVars, hist, clientVars>>

\* A request's handler calls a query function.
conc_start ==
    \E c \in CallIds, fn \in ConcFns :
      /\ ~InProgress(calls[c])
      /\ calls' = [calls EXCEPT ![c] = [NoCall EXCEPT !.fn = fn, !.pc = "q_try"]]
      /\ UNCHANGED concIdle

conc_query_attempt ==
    \E c \in CallIds :
      /\ calls[c].pc = "q_try"
      /\ calls' = NextAttempt(calls, c)
      /\ UNCHANGED concIdle

\* One attempt of the call's _connect, and tenacity's decision after it.
conc_connect_attempt ==
    \E c \in CallIds :
      /\ calls[c].pc = "c_try"
      /\ \E outcome \in ConnectOutcomes :
           LET n == calls[c].cAttempts + 1
           IN  calls' = [calls EXCEPT ![c] =
                 IF outcome = "ok"
                 THEN [@ EXCEPT !.cAttempts = n, !.pc = "execute"]
                 ELSE IF StopAfterAttempt(n)
                 THEN [@ EXCEPT !.cAttempts = n, !.pc = "q_failed"]
                 ELSE [@ EXCEPT !.cAttempts = n,
                                !.cDelays = Append(@, WaitExponential(n))]]
      /\ UNCHANGED concIdle

\* The call's cursor work: it returns its row or raises the driver's error.
conc_execute ==
    \E c \in CallIds :
      /\ calls[c].pc = "execute"
      /\ \E outcome \in {"ok", "psycopg2.Error"} :
           calls' = [calls EXCEPT ![c].pc =
                       IF outcome = "ok" THEN "q_returned" ELSE "q_failed"]
      /\ UNCHANGED concIdle

\* The attempt raised: tenacity sleeps and retries, or gives up.
conc_query_failed ==
    \E c \in CallIds :
      /\ calls[c].pc = "q_failed"
      /\ calls' = [calls EXCEPT ![c] =
           IF StopAfterAttempt(@.attempts)
           THEN [@ EXCEPT !.raised = <<"RetryError">>, !.pc = "q_raised"]
           ELSE [@ EXCEPT !.delays = Append(@, WaitExponential(calls[c].attempts)),
                          !.pc = "q_try"]]
      /\ UNCHANGED concIdle

\* ------------------------------------------------------ the specifications

InitRest ==
    /\ tables = SeedTables
    /\ intents = <<>>
    /\ op = "idle"
    /\ args = NoArgs
    /\ pc = "idle"
    /\ toolAttempts = 0
    /\ toolDelays = <<>>
    /\ gwCalls = 0
    /\ gwOutcomes = <<>>
    /\ intent = NoIntent
    /\ writeBack = "none"
    /\ qFn = ""
    /\ qArgs = NoArgs
    /\ qAttempts = 0
    /\ qDelays = <<>>
    /\ cAttempts = 0
    /\ cDelays = <<>>
    /\ connects = 0
    /\ openConns = 0
    /\ exc = NoExc
    /\ attemptExc = NoExc
    /\ qRows = <<>>
    /\ qRaised = NoExc
    /\ result = NoResult
    /\ raised = NoExc
    /\ infAttempts = 0
    /\ infDelays = <<>>
    /\ infOutcomes = <<>>
    /\ request = NoRequest
    /\ warned = FALSE
    /\ handlerRan = FALSE
    /\ httpStatus = 0
    /\ headerRead = FALSE
    /\ hist = NoHist
    /\ InitClient
    /\ InitCalls

\* The payments table is empty.
InitOp ==
    /\ payments = <<>>
    /\ InitRest

\* The tools and the inference calls of one agent process.
Init ==
    /\ databaseUrl \in BOOLEAN
    /\ stripeKey \in BOOLEAN
    /\ a2aApiKey = Absent
    /\ enforcing = FALSE
    /\ InitOp

Next ==
    \/ start_lookup
    \/ lookup_return
    \/ start_create_payment_intent
    \/ start_get_payment_status
    \/ tool_attempt
    \/ gateway_create
    \/ gateway_retrieve
    \/ write_back_return
    \/ tool_failed
    \/ gateway_advance
    \/ query_attempt
    \/ connect_attempt
    \/ execute
    \/ query_failed
    \/ start_inference
    \/ inference_attempt

Spec == Init /\ [][Next]_vars

\* The payment queries called directly, against a configured database.
InitDb ==
    /\ databaseUrl = TRUE
    /\ stripeKey = TRUE
    /\ a2aApiKey = Absent
    /\ enforcing = FALSE
    /\ InitOp

NextDb ==
    \/ start_db_call
    \/ query_attempt
    \/ connect_attempt
    \/ execute
    \/ query_failed
    \/ db_return

SpecDb == InitDb /\ [][NextDb]_vars

\* The HTTP surface of one domain service.
InitAuth ==
    /\ databaseUrl = TRUE
    /\ stripeKey = TRUE
    /\ a2aApiKey \in ApiKeySettings
    /\ enforcing \in BOOLEAN
    /\ InitOp

NextAuth ==
    \/ receive_request
    \/ require_internal_api_key

SpecAuth == InitAuth /\ [][NextAuth]_vars

\* The tools of a configured deployment, called and called again.
NextRepeat ==
    \/ start_lookup
    \/ lookup_return
    \/ start_create_payment_intent
    \/ start_get_payment_status
    \/ repeat_lookup
    \/ follow_up_status
    \/ tool_attempt
    \/ gateway_create
    \/ gateway_retrieve
    \/ write_back_return
    \/ tool_failed
    \/ gateway_advance
    \/ query_attempt
    \/ connect_attempt
    \/ execute
    \/ query_failed

SpecRepeat == InitDb /\ [][NextRepeat]_vars

\* A lookup tool call run to its end: tenacity and the tool run their steps
\* one after the other in the caller's thread, so a step that can be taken
\* is taken.
InitLookup ==
    /\ databaseUrl \in BOOLEAN
    /\ stripeKey = TRUE
    /\ a2aApiKey = Absent
    /\ enforcing = FALSE
    /\ InitOp

NextLookup ==
    \/ start_lookup
    \/ lookup_return
    \/ query_attempt
    \/ connect_attempt
    \/ execute
    \/ query_failed

SpecLookup ==
    /\ InitLookup
    /\ [][NextLookup]_vars
    /\ WF_vars(query_attempt)
    /\ WF_vars(connect_attempt)
    /\ WF_vars(execute)
    /\ WF_vars(query_failed)
    /\ WF_vars(lookup_return)

\* A payment stored by an earlier run, under an intent id the gateway does
\* not issue again.
StoredPayment ==
    [stripe_payment_intent_id |-> MaxIntents + 1, amount_cents |-> 2500,
     currency |-> "usd", customer_email |-> "earlier@example.com",
     status |-> "succeeded"]

\* The domain tools of a configured deployment over a payments table that
\* already holds a row.
InitStore ==
    /\ databaseUrl = TRUE
    /\ stripeKey = TRUE
    /\ a2aApiKey = Absent
    /\ enforcing = FALSE
    /\ payments = <<StoredPayment>>
    /\ InitRest

NextStore ==
    \/ start_lookup
    \/ lookup_return
    \/ start_create_payment_intent
    \/ start_get_payment_status
    \/ tool_attempt
    \/ gateway_create
    \/ gateway_retrieve
    \/ write_back_return
    \/ tool_failed
    \/ gateway_advance
    \/ query_attempt
    \/ connect_attempt
    \/ execute
    \/ query_failed

SpecStore == InitStore /\ [][NextStore]_vars

\* The client's run over its test queries.
NextClient ==
    \/ create_remote_agents
    \/ begin_conversation
    \/ create_session
    \/ run_async
    \/ client_exit

SpecClient == InitDb /\ [][NextClient]_vars

\* Concurrent calls of the query functions, with and without DATABASE_URL.
InitConc ==
    /\ databaseUrl \in BOOLEAN
    /\ stripeKey = TRUE
    /\ a2aApiKey = Absent
    /\ enforcing = FALSE
    /\ InitOp

NextConc ==
    \/ conc_start
    \/ conc_query_attempt
    \/ conc_connect_attempt
    \/ conc_execute
    \/ conc_query_failed

SpecConc == InitConc /\ [][NextConc]_vars


\* ----------------------------------------------------------------- claims

NonDecreasing(s) == \A i \in 1..(Len(s) - 1) : s[i] <= s[i + 1]
Within(s, lo, hi) == \A i \in DOMAIN s : lo <= s[i] /\ s[i] <= hi
IsPrefix(s, t) == Len(s) <= Len(t) /\ SubSeq(t, 1, Len(s)) = s

Finished(tools) == pc = "done" /\ op \in tools

\* C1: one call of a retry-wrapped operation never makes more attempts than
\* its policy allows (3 at the tenacity boundaries: _connect, the db
\* functions, the payment tools; 5 at the inference boundary), and the sleeps
\* between its attempts never decrease and lie within the policy's
\* [min, max] delay.
C1_RetryPolicyBounds ==
    /\ cAttempts <= StopAttempts
    /\ qAttempts <= StopAttempts
    /\ toolAttempts <= StopAttempts
    /\ infAttempts <= InferenceAttempts
    /\ \A d \in {cDelays, qDelays, toolDelays} :
         /\ Len(d) < StopAttempts
         /\ NonDecreasing(d)
         /\ Within(d, WaitMinMs, WaitMaxMs)
    /\ Len(infDelays) < InferenceAttempts
    /\ NonDecreasing(infDelays)
    /\ Within(infDelays, InitialDelayMs, MaxDelayMs)

\* A payment tool on its third attempt whose write-back made three attempts,
\* the last of which made three connect attempts.
C1_Witness ==
    /\ op = "get_payment_status"
    /\ toolAttempts = StopAttempts /\ toolDelays = <<200, 400>>
    /\ qAttempts = StopAttempts /\ qDelays = <<200, 400>>
    /\ cAttempts = StopAttempts /\ cDelays = <<200, 400>>

\* C2: at the payment gateway a connector error or a transient gateway error
\* on an attempt that is not the policy's last makes the tool call the
\* gateway again, and a declined or invalid-request error ends the gateway
\* calls.
C2_GatewayErrorsRetried ==
    Finished(PaymentTools) =>
      \A i \in DOMAIN gwOutcomes :
        /\ (gwOutcomes[i] \in {"APIConnectionError", "APIError"} /\ i < StopAttempts)
              => Len(gwOutcomes) > i
        /\ gwOutcomes[i] \in {"CardError", "InvalidRequestError"}
              => Len(gwOutcomes) = i

\* C3: an operation whose boundary answers 503, 503, 503 and then succeeds
\* ends with the success result after exactly 3 attempts, at the inference
\* boundary and at the payment gateway.
C3_Absorbs503 ==
    /\ (Finished({"inference"}) /\ IsPrefix(infOutcomes, <<503, 503, 503, 200>>))
          => (result.text = "{model response}" /\ raised = NoExc /\ infAttempts = 3)
    /\ (Finished(PaymentTools) /\ gwOutcomes # <<>>
          /\ IsPrefix(gwOutcomes, <<"APIError", "APIError", "APIError", "ok">>))
          => (result = (IF op = "create_payment_intent"
                        THEN CreatedText(args, intent) ELSE StatusText(intent))
                /\ gwCalls = 3)

\* C4: a configuration error is never retried: with STRIPE_SECRET_KEY unset
\* a payment tool makes one attempt and no gateway call, and with
\* DATABASE_URL unset get_db and every db function built on it make one
\* attempt of the wrapped action.
C4_ConfigErrorNotRetried ==
    /\ (~stripeKey /\ op \in PaymentTools) => (toolAttempts <= 1 /\ gwCalls = 0)
    /\ ~databaseUrl => (cAttempts <= 1 /\ qAttempts <= 1 /\ connects <= 1)

\* C5: when a db call fails on every attempt, the error its caller receives
\* is the error the failing attempt raised (the driver's), not another one.
C5_OriginalErrorPropagated ==
    pc = "q_raised" => (qRaised = attemptExc /\ Head(qRaised) # "RetryError")

\* C6: every invocation of a domain tool ends by returning a string: no
\* exception leaves the tool.
C6_ToolReturnsString ==
    Finished(LookupTools \cup PaymentTools) => (raised = NoExc /\ result # NoResult)

\* C7: when the gateway call succeeded and the write-back failed on every
\* attempt, the payment tool returns what it returns when the write-back
\* succeeds: the "Created payment intent" text, or the status text.
C7_WriteBackAdvisory ==
    (Finished(PaymentTools) /\ writeBack = "failed") =>
      /\ raised = NoExc
      /\ result = IF op = "create_payment_intent"
                  THEN CreatedText(args, intent) ELSE StatusText(intent)

\* The status lookup's write-back failed on every attempt, and so did the
\* write-back of the creation before it (no row was ever stored).
C7_Witness ==
    /\ Finished({"get_payment_status"})
    /\ writeBack = "failed"
    /\ qAttempts = StopAttempts
    /\ intents # <<>>
    /\ payments = <<>>

UniqueIntentIds ==
    \A i, j \in DOMAIN payments :
      payments[i].stripe_payment_intent_id = payments[j].stripe_payment_intent_id
        => i = j

\* The step in which an insert_payment attempt commits.
InsertCommits == pc = "execute" /\ pc' = "q_returned" /\ qFn = "insert_payment"

UpsertEffect ==
    IF HasPayment(payments, qArgs.stripe_payment_intent_id)
    THEN /\ Len(payments') = Len(payments)
         /\ \A i \in DOMAIN payments :
              IF payments[i].stripe_payment_intent_id = qArgs.stripe_payment_intent_id
              THEN /\ payments'[i].status = qArgs.status
                   /\ payments'[i].amount_cents = payments[i].amount_cents
                   /\ payments'[i].currency = payments[i].currency
                   /\ payments'[i].customer_email = payments[i].customer_email
                   /\ payments'[i].stripe_payment_intent_id
                        = payments[i].stripe_payment_intent_id
              ELSE payments'[i] = payments[i]
    ELSE payments' = Append(payments, qArgs)

\* C8: the payments table never holds two rows with one intent id; an
\* insert_payment whose intent id exists sets that row's status to the
\* call's status and leaves the row's amount, currency and e-mail, and every
\* other row, as they were; one whose id is new appends its row.
C8_UpsertSemantics ==
    /\ []UniqueIntentIds
    /\ [][InsertCommits => UpsertEffect]_vars

\* An insert_payment with an existing id and another amount has committed
\* beside a second row: the stored amount is still the first write's.
C8_Witness ==
    /\ pc = "q_returned"
    /\ qFn = "insert_payment"
    /\ Len(payments) = 2
    /\ \E i \in DOMAIN payments :
         /\ payments[i].stripe_payment_intent_id = qArgs.stripe_payment_intent_id
         /\ payments[i].amount_cents # qArgs.amount_cents
         /\ payments[i].status = qArgs.status

Answered == pc = "done" /\ op = "http_request"

Mismatch == request.key = Absent \/ request.key # a2aApiKey

\* C9 as stated: in advisory mode every request outside the discovery path
\* whose header is absent or differs from the shared secret is logged and
\* reaches the handler; one with the correct key reaches it unlogged.
C9_AsStated ==
    (Answered /\ ~enforcing /\ request.path # AgentCardPath) =>
      /\ handlerRan
      /\ warned <=> Mismatch

\* C9: in advisory mode, when a shared secret is configured (A2A_API_KEY set
\* and not empty), every request whose path does not start with /.well-known
\* and whose header is absent or differs from the secret is logged as an
\* auth warning and still reaches the handler; one carrying the correct key
\* reaches the handler with no warning.
C9_AdvisoryMode ==
    (Answered /\ ~enforcing /\ Truthy(a2aApiKey)
        /\ ~StartsWithWellKnown(request.path)) =>
      /\ handlerRan
      /\ warned <=> Mismatch

C9_Witness ==
    /\ Answered
    /\ ~enforcing
    /\ a2aApiKey = SharedSecret
    /\ request.path = "/tasks"
    /\ request.key = "wrong-key-123"
    /\ warned
    /\ handlerRan

\* C10: in enforcing mode every request outside the discovery path whose
\* header is absent or differs from the shared secret is answered 401 and
\* its handler never runs.
C10_EnforcingRejects ==
    (Answered /\ enforcing /\ Truthy(a2aApiKey) /\ ~StartsWithWellKnown(request.path)
        /\ Mismatch) =>
      (~handlerRan /\ httpStatus = 401)

\* C11: a request to the capability-discovery path
\* (/.well-known/agent-card.json) always reaches the handler, with any or no
\* x-internal-api-key header, with or without a configured secret, in either
\* auth mode; its header is never read and no warning is logged for it.
C11_DiscoveryAlwaysAllowed ==
    (Answered /\ request.path = AgentCardPath) =>
      (handlerRan /\ ~headerRead /\ ~warned)

\* A discovery request without the header has been answered by a service
\* that has a secret configured and enforcing mode selected.
C11_Witness ==
    /\ Answered
    /\ request.path = AgentCardPath
    /\ request.key = Absent
    /\ a2aApiKey = SharedSecret
    /\ enforcing
    /\ handlerRan

\* C14: every connection a query function opened is closed before that call
\* returns or raises and before each further attempt of it: wherever the
\* call is not between connecting and closing, no connection is open.
C14_ConnectionsClosed ==
    pc \in {"idle", "q_try", "q_returned", "q_raised", "done"} => openConns = 0

NotFoundTemplates ==
    {"No product found for '{product_name}'.",
     "No inventory information found for '{product_name}'.",
     "No shipping estimate found for '{product_name}'.",
     "No tracking data found for tracking number '{tracking_number}'."}

DegradedTexts ==
    {"Database error occurred. Please try again later.",
     "Unexpected error occurred.",
     "ERROR: Stripe secret key is not configured.",
     "Payment service is temporarily unavailable.",
     "Payment service error occurred. Please try again later.",
     "Sorry, I couldn't process your payment request right now. The payment system is temporarily unavailable. Please try again later.",
     "Sorry, I couldn't retrieve the payment status right now. The payment system is temporarily unavailable. Please try again later."}

EndsNotFound == raised = NoExc /\ result.text \in NotFoundTemplates
EndsPrimaryError == raised = NoExc /\ result.text \in DegradedTexts
EndsFormatted ==
    /\ raised = NoExc
    /\ result # NoResult
    /\ result.text \notin NotFoundTemplates \cup DegradedTexts

WriteBackAttempted == writeBack \in {"ok", "failed"} \/ (op \in PaymentTools /\ qFn = "insert_payment")

\* C15: a domain operation runs its primary action, then (payment operations
\* only, and only after the primary action succeeded) the write-back, then
\* formats: the write-back is never attempted by a lookup nor after a
\* not-found or primary-error outcome, nothing is returned while it runs,
\* and every finished operation ended in exactly one of not-found,
\* primary-error and formatted-result.
C15_StepOrder ==
    /\ (op \in LookupTools \cup PaymentTools /\ WriteBackAttempted) =>
         /\ op \in PaymentTools
         /\ gwOutcomes # <<>>
         /\ gwOutcomes[Len(gwOutcomes)] = "ok"
         /\ pc # "done" => result = NoResult
    /\ Finished(LookupTools \cup PaymentTools) =>
         /\ EndsNotFound \/ EndsPrimaryError \/ EndsFormatted
         /\ (EndsNotFound \/ EndsPrimaryError) => ~WriteBackAttempted

\* Equality of product names up to letter case, on the names in use.
SameIgnoringCase(a, b) == a = b \/ {a, b} = {"iPhone 15 Pro", "iphone 15 pro"}

\* What a lookup that reached the store must return, read off the tables.
ExpectedLookup(tool, a) ==
    CASE tool = "get_product_info" ->
           IF \E i \in DOMAIN tables.products :
                SameIgnoringCase(tables.products[i].name, a.key)
           THEN {[text |-> "Product: {name}\nDescription: {description}\nPrice: ${dollars:.2f}",
                  f |-> <<r.name, r.description,
                          <<r.price_cents \div 100, r.price_cents % 100>> >>] :
                   r \in {tables.products[i] : i \in
                            {j \in DOMAIN tables.products :
                               SameIgnoringCase(tables.products[j].name, a.key)}}}
           ELSE {[text |-> "No product found for '{product_name}'.", f |-> <<a.key>>]}
      [] tool = "get_inventory_info" ->
           IF \E i \in DOMAIN tables.inventory :
                SameIgnoringCase(tables.inventory[i].product_name, a.key)
           THEN {[text |-> "{product_name} is {status} with {quantity} units available.",
                  f |-> <<a.key, r.status, r.quantity>>] :
                   r \in {tables.inventory[i] : i \in
                            {j \in DOMAIN tables.inventory :
                               SameIgnoringCase(tables.inventory[j].product_name, a.key)}}}
           ELSE {[text |-> "No inventory information found for '{product_name}'.",
                  f |-> <<a.key>>]}
      [] tool = "get_shipping_estimate" ->
           IF \E i \in DOMAIN tables.shipping_estimates :
                SameIgnoringCase(tables.shipping_estimates[i].product_name, a.key)
           THEN {[text |-> "Standard: {standard_days} ({standard_cost}), Express: {express_days} ({express_cost}). Destination: {destination}.",
                  f |-> <<r.standard_days, r.standard_cost, r.express_days,
                          r.express_cost, a.destination>>] :
                   r \in {tables.shipping_estimates[i] : i \in
                            {j \in DOMAIN tables.shipping_estimates :
                               SameIgnoringCase(tables.shipping_estimates[j].product_name,
                                                a.key)}}}
           ELSE {[text |-> "No shipping estimate found for '{product_name}'.",
                  f |-> <<a.key>>]}
      [] tool = "get_tracking_info" ->
           IF \E i \in DOMAIN tables.tracking_info :
                tables.tracking_info[i].tracking_number = a.key
           THEN {[text |-> "Status: {status}. Last seen in {last_location}. Estimated delivery: {eta}.",
                  f |-> <<r.status, r.last_location, r.eta>>] :
                   r \in {tables.tracking_info[i] : i \in
                            {j \in DOMAIN tables.tracking_info :
                               tables.tracking_info[j].tracking_number = a.key}}}
           ELSE {[text |-> "No tracking data found for tracking number '{tracking_number}'.",
                  f |-> <<a.key>>]}

\* C16: a lookup tool whose query reached the store returns the template
\* filled from the stored row matching its key (with the product name or
\* destination the caller passed where the template names one), or the
\* tool's not-found string naming the key when no row matches; product
\* names match whatever their letter case, tracking numbers only exactly.
C16_LookupResult ==
    (Finished(LookupTools) /\ qRaised = NoExc) => result \in ExpectedLookup(op, args)

\* An inventory lookup by a differently cased name found the row, and a
\* tracking lookup by a differently cased number would not.
C16_Witness ==
    /\ Finished({"get_inventory_info"})
    /\ args.key = "iphone 15 pro"
    /\ qRaised = NoExc
    /\ result.f = <<"iphone 15 pro", "in stock", 12>>

C16_WitnessExact ==
    /\ Finished({"get_tracking_info"})
    /\ args.key = "1z999"
    /\ qRaised = NoExc
    /\ result.text = "No tracking data found for tracking number '{tracking_number}'."

\* The call returned a string that reports records: the tool's template or
\* its not-found string, not a degraded-service text.
Reported(res, rs) == rs = NoExc /\ res # NoResult /\ res.text \notin DegradedTexts

\* C17: a lookup repeated with the same key, the underlying records being
\* the same for both calls (the lookup tables never change; for
\* get_payment_status the gateway holds the same intent), returns the string
\* the first call returned, whenever both calls report records.
C17_RepeatIdempotent ==
    ( /\ Finished(Lookups)
      /\ hist.op = op
      /\ hist.args = args
      /\ Reported(hist.result, hist.raised)
      /\ Reported(result, raised)
      /\ op = "get_payment_status" => hist.intent = intent )
    => result = hist.result

\* A status lookup was repeated on an unchanged intent; its write-back
\* failed this time, and it returned the same status string.
C17_Witness ==
    /\ Finished({"get_payment_status"})
    /\ hist.op = op
    /\ hist.args = args
    /\ hist.intent = intent
    /\ intent.status = "succeeded"
    /\ writeBack = "failed"
    /\ Reported(result, raised)
    /\ result = hist.result

\* C18: the status string returned for the intent id taken from a creation
\* string names the same intent id, the same two-decimal amount and the same
\* upper-cased currency as the creation string.
C18_StatusMatchesCreation ==
    ( /\ Finished({"get_payment_status"})
      /\ hist.op = "create_payment_intent"
      /\ raised = NoExc
      /\ Len(result.f) = 4 )
    => /\ result.f[1] = hist.result.f[1]
       /\ result.f[3] = hist.result.f[3]
       /\ result.f[4] = hist.result.f[4]

\* The retry state of a call is left alone, or its attempt number goes up by
\* one, or the call is started anew after it ended.
OwnRetrySteps(c) ==
    \/ calls'[c].attempts = calls[c].attempts /\ calls'[c].delays = calls[c].delays
    \/ /\ calls'[c].attempts = calls[c].attempts + 1
       /\ calls[c].pc = "q_try"
       /\ calls'[c].delays = calls[c].delays
    \/ /\ calls'[c].attempts = calls[c].attempts
       /\ calls[c].pc = "q_failed"
       /\ calls'[c].delays = Append(calls[c].delays, WaitExponential(calls[c].attempts))
    \/ ~InProgress(calls[c]) /\ calls'[c].attempts = 0 /\ calls'[c].delays = <<>>

BudgetKept ==
    \A c \in CallIds :
      /\ calls[c].attempts <= StopAttempts
      /\ calls[c].pc = "q_raised" =>
           (calls[c].attempts = StopAttempts /\ calls[c].delays = <<200, 400>>)

\* C19: with retry-wrapped calls running concurrently, every step changes
\* the retry state of at most one call and changes it as that call's own
\* attempt, sleep or start; a call never makes more than its 3 attempts and
\* gives up only after making all 3, whatever the other calls do.
C19_RetryStatePerCall ==
    /\ []BudgetKept
    /\ [][\A c \in CallIds :
            /\ OwnRetrySteps(c)
            /\ calls'[c] # calls[c] =>
                 \A d \in CallIds \ {c} : calls'[d] = calls[d]]_vars

\* Two calls of one query function are in flight: one has used its whole
\* budget and gave up while the other is inside its first attempt.
C19_Witness ==
    /\ calls[1].fn = calls[2].fn
    /\ calls[1].pc = "q_raised"
    /\ calls[1].attempts = StopAttempts
    /\ InProgress(calls[2])
    /\ calls[2].attempts = 1

C21_DriverErrorText ==
    (Finished(LookupTools) /\ qRaised # NoExc) =>
      LET cause == attemptExc[Len(attemptExc)]
          driver == cause \in {"psycopg2.Error", "psycopg2.OperationalError"}
      IN  /\ driver => result = DatabaseErrorText
          /\ result = UnexpectedErrorText => ~driver

\* C22: one invocation of create_payment_intent makes one attempt of the
\* tool and calls PaymentIntent.create at most once, whatever the gateway
\* answers and whether or not the write-back fails; so at most one of its
\* gateway calls succeeds and it creates at most one intent.
C22_CreateCalledOnce ==
    op = "create_payment_intent" =>
      /\ toolAttempts <= 1
      /\ gwCalls <= 1
      /\ Len(gwOutcomes) <= 1
      /\ Cardinality({i \in DOMAIN gwOutcomes : gwOutcomes[i] = "ok"}) <= 1

\* The gateway raised an error that is no StripeError, and the tool returned
\* its apology after that single call.
C22_Witness ==
    /\ Finished({"create_payment_intent"})
    /\ gwOutcomes = <<"Exception">>
    /\ gwCalls = 1
    /\ result = SorryText("create_payment_intent")

\* The gateway created the intent, the write-back failed on all its
\* attempts, and the tool returned after that single gateway call.
C22_WitnessWriteBack ==
    /\ Finished({"create_payment_intent"})
    /\ gwOutcomes = <<"ok">>
    /\ writeBack = "failed"
    /\ gwCalls = 1

\* Between payments and payments' only rows keyed by id differ.
OnlyRowOf(id) ==
    /\ \A i \in DOMAIN payments :
         payments[i].stripe_payment_intent_id # id =>
           (i \in DOMAIN payments' /\ payments'[i] = payments[i])
    /\ \A i \in DOMAIN payments' :
         payments'[i].stripe_payment_intent_id # id =>
           (i \in DOMAIN payments /\ payments'[i] = payments[i])

\* C23: no step of a lookup tool changes a persisted record; the lookup
\* tables are never written, and the payments table is written only by
\* create_payment_intent and get_payment_status, which change or add only
\* the row keyed by the intent id they handle.
C23_OnlyPaymentToolsWrite ==
    [][/\ tables' = tables
       /\ op \in LookupTools => payments' = payments
       /\ payments' # payments =>
            (op \in PaymentTools /\ OnlyRowOf(intent.id))]_vars

\* The status tool has updated the row of its intent to "succeeded" beside
\* the row stored earlier, which is as it was.
C23_Witness ==
    /\ op = "get_payment_status"
    /\ pc = "q_returned"
    /\ Len(payments) = 2
    /\ payments[1] = StoredPayment
    /\ payments[2].stripe_payment_intent_id = intent.id
    /\ payments[2].status = "succeeded"

\* C24: a lookup tool call makes at most 3 attempts of its query and at most
\* 9 connection attempts, whatever the store does, and then returns: a call
\* whose query failed on its last attempt ends with one of the two error
\* strings.
C24_LookupTerminates ==
    /\ [](op \in LookupTools => (qAttempts <= 3 /\ connects <= 9))
    /\ []((Finished(LookupTools) /\ qRaised # NoExc) =>
            result \in {DatabaseErrorText, UnexpectedErrorText})
    /\ (op \in LookupTools /\ pc # "done") ~> (pc = "done")

\* The store refused all 9 connections of the 3 query attempts and the tool
\* returned.
C24_Witness ==
    /\ Finished(LookupTools)
    /\ databaseUrl
    /\ qAttempts = 3
    /\ connects = 9
    /\ openConns = 0
    /\ qRaised # NoExc
    /\ result = UnexpectedErrorText

\* C25: with A2A_API_KEY unset the middleware checks nothing: every request,
\* on any path and with any or no x-internal-api-key header, reaches the
\* handler, its header is not read and no warning is printed.  The
\* middleware keeps no state: what it does with a request is determined by
\* the request's path, its header and the configured secret alone, whatever
\* requests came before.
C25_NoSecretNoCheck ==
    Answered =>
      /\ a2aApiKey = Absent => (handlerRan /\ ~warned /\ ~headerRead)
      /\ handlerRan
      /\ warned <=> /\ ~StartsWithWellKnown(request.path)
                    /\ a2aApiKey \notin {Absent, ""}
                    /\ request.key # a2aApiKey
      /\ headerRead <=> /\ ~StartsWithWellKnown(request.path)
                        /\ a2aApiKey \notin {Absent, ""}

\* A request outside the discovery paths carrying a key has been answered by
\* a service without a secret.
C25_Witness ==
    /\ Answered
    /\ a2aApiKey = Absent
    /\ request.path = "/tasks"
    /\ request.key = "wrong-key-123"
    /\ handlerRan
    /\ ~warned

\* C26: once create_remote_agents has run, the four proxies are bound to
\* pairwise distinct agent-card URLs: no two agent names resolve to the same
\* card, so a call delegated to one name reaches that agent's own service.
C26_DistinctAgentCards ==
    clientPc # "start" =>
      \A a, b \in AgentNames : a # b => proxies[a] # proxies[b]

====
